---- MODULE Spec2Model ----
(***************************************************************************)
(* The job table of app.py (st.session_state.files) and the script that    *)
(* drives it.  Streamlit executes the script top to bottom once per run;   *)
(* a run is started by a button click or by st.rerun().  The model splits  *)
(* a run into the blocks of the script:                                    *)
(*   handlers (lines 140-182) -> first admission scan (184-197)            *)
(*   -> tab rendering with the per-file Cancel button (199-231)            *)
(*   -> second admission scan (233-244) -> dispatch (246-253)              *)
(*   -> return of the text extractor (253-258, 271-274)                    *)
(*   -> return of the note generator (259-270).                            *)
(* Strings are sequences of tokens; an Optional[str] is None or Some(s).   *)
(* The script re-reads the "cancelled" flag after each collaborator call   *)
(* (lines 255, 261), so the model lets the writes of the two cancel        *)
(* handlers land on the table while such a call is in flight.              *)
(***************************************************************************)
EXTENDS Naturals, Sequences, FiniteSets, TLC

\* ------------------------------------------------------------- bounds
\* Number of distinct file names the user may upload.
NumFiles == 2
\* Number of distinct non-empty texts the note generator may return.
MaxNotes == 1
\* Longest list of files submitted with one click on "Generate Notes".
MaxUpload == 2

\* ------------------------------------------------------------- values
None == <<>>
Some(s) == <<s>>

\* Python truthiness of an Optional[str]: None and "" are false.
Truthy(v) == v # None /\ v[1] # <<>>

\* File names: odd ones "ch<i>.pdf", even ones "ch<i>.pdf.v2.pdf".
Name(i) ==
    IF i % 2 = 1 THEN <<"ch", ToString(i), ".pdf">>
    ELSE <<"ch", ToString(i), ".pdf", ".v2", ".pdf">>

Names == {Name(i) : i \in 1..NumFiles}

\* processing_file = None
NoFile == <<>>

\* Results of extract_text_from_pdf: None on an exception, else the text,
\* which is "" for a PDF without a text layer.
ChapterTexts == {None, Some(<<>>), Some(<<"chapter text">>)}

\* Results of generate_notes_with_gemini: None on an exception, else
\* response.text.
NotesResults ==
    {None, Some(<<>>)} \cup {Some(<<"notes ", ToString(k)>>) : k \in 1..MaxNotes}

\* Values of the sidebar's text inputs.
ApiKeys == {<<>>, <<"key">>}
Prompts == {<<>>, <<"prompt">>}

\* Values of the multi-file uploader (same-named files may be uploaded).
Uploads == UNION {[1..n -> Names] : n \in 0..MaxUpload}

Buttons ==
    {"none", "generate", "cancel_all", "download_all_markdown",
     "download_all_pdf", "cancel"}

VARIABLES
    files,            \* st.session_state.files, as the list of its items
    pc,               \* the block of the script the current run is at
    button,           \* the pressed button, as the handlers block reads it
    cancel_key,       \* the file of the clicked per-file Cancel button
    pdf_files,        \* the uploads the generate handler's loop went over
    warning,          \* the st.warning the handlers block showed, if any
    download,         \* data of the "download all" button, None if absent
    processing_file,  \* the script's variable of that name
    chapter_text,     \* the script's variable of that name, None between runs
    rerun,            \* the last run ended in st.rerun()
    extractCalls,     \* per file: calls of extract_text_from_pdf so far
    genCalls          \* per file: calls of generate_notes_with_gemini

vars ==
    <<files, pc, button, cancel_key, pdf_files, warning,
      download, processing_file, chapter_text, rerun, extractCalls, genCalls>>

\* ------------------------------------------------------ table helpers
Keys(fs) == {fs[i].name : i \in DOMAIN fs}

IndexOf(fs, n) == CHOOSE i \in DOMAIN fs : fs[i].name = n

\* A scan that lacks the "break" and so keeps the last match.
LastWithStatus(fs, s) ==
    IF \E i \in DOMAIN fs : fs[i].status = s
    THEN CHOOSE i \in DOMAIN fs :
            /\ fs[i].status = s
            /\ \A j \in (i + 1)..Len(fs) : fs[j].status # s
    ELSE 0

\* The loops "for ... in files.items(): if status == s: ...; break":
\* index of the first entry with status s, 0 if there is none.
FirstWithStatus(fs, s) ==
    IF \E i \in DOMAIN fs : fs[i].status = s
    THEN CHOOSE i \in DOMAIN fs :
            /\ fs[i].status = s
            /\ \A j \in 1..(i - 1) : fs[j].status # s
    ELSE 0

\* The entry the generate handler inserts.
NewJob(n) ==
    [name |-> n, status |-> "In Queue", notes |-> None, file |-> n,
     cancelled |-> FALSE]

\* An iteration that lacks the "not in" test and assigns the entry anew.
AddFileOverwrite(fs, n) ==
    IF n \in Keys(fs)
    THEN [fs EXCEPT ![IndexOf(fs, n)] = NewJob(n)]
    ELSE Append(fs, NewJob(n))

\* One iteration of the generate handler's loop.
AddFile(fs, n) == IF n \in Keys(fs) THEN fs ELSE Append(fs, NewJob(n))

\* The generate handler's loop over pdf_files.
RECURSIVE AddFiles(_, _)
AddFiles(fs, ups) ==
    IF ups = <<>> THEN fs ELSE AddFiles(AddFile(fs, Head(ups)), Tail(ups))

\* Guards that lack the test of the prompt.
GenerateWarningNoPrompt(key, ups, prompt) ==
    IF key = <<>> THEN "Please enter your Google AI Studio API key in the sidebar."
    ELSE IF ups = <<>> THEN "Please upload at least one PDF file."
    ELSE ""

\* The generate handler's three guards: the warning shown, "" if none.
GenerateWarning(key, ups, prompt) ==
    IF key = <<>> THEN "Please enter your Google AI Studio API key in the sidebar."
    ELSE IF ups = <<>> THEN "Please upload at least one PDF file."
    ELSE IF prompt = <<>> THEN "Please enter a prompt."
    ELSE ""

\* A generate handler that builds the table anew from the uploads.
GenerateHandlerFresh(fs, key, ups, prompt) ==
    IF GenerateWarning(key, ups, prompt) # "" THEN fs ELSE AddFiles(<<>>, ups)

\* The generate handler: the guards, then the loop.
GenerateHandler(fs, key, ups, prompt) ==
    IF GenerateWarning(key, ups, prompt) # "" THEN fs ELSE AddFiles(fs, ups)

\* A cancel handler that sets the flag and forgets the status.
CancelWriteFlagOnly(job) == [job EXCEPT !.cancelled = TRUE]

\* The two assignments of a cancel handler on one entry.
CancelWrite(job) == [job EXCEPT !.cancelled = TRUE, !.status = "Cancelled"]

\* A cancel_all loop that sets the flags and forgets the statuses.
CancelAllFlagsOnly(fs) == [i \in DOMAIN fs |-> [fs[i] EXCEPT !.cancelled = TRUE]]

\* The cancel_all handler's loop.
CancelAllWrite(fs) == [i \in DOMAIN fs |-> CancelWrite(fs[i])]

\* The per-file Cancel button is rendered for these statuses only.
CancelRendered(job) == job.status \in {"In Queue", "Processing"}

\* An admission scan that lacks the "if not processing_file" guard.
AdmissionScanUnguarded(fs) ==
    LET q == FirstWithStatus(fs, "In Queue")
    IN  IF q # 0
        THEN [files |-> [fs EXCEPT ![q].status = "Processing"],
              processing_file |-> fs[q].name]
        ELSE [files |-> fs, processing_file |-> NoFile]

\* An admission scan whose second loop lacks the "break" and admits every
\* file In Queue.
AdmissionScanNoBreak(fs) ==
    LET p == FirstWithStatus(fs, "Processing")
        q == LastWithStatus(fs, "In Queue")
    IN  IF p # 0 THEN [files |-> fs, processing_file |-> fs[p].name]
        ELSE IF q # 0
        THEN [files |-> [i \in DOMAIN fs |->
                           IF fs[i].status = "In Queue"
                           THEN [fs[i] EXCEPT !.status = "Processing"]
                           ELSE fs[i]],
              processing_file |-> fs[q].name]
        ELSE [files |-> fs, processing_file |-> NoFile]

\* An admission scan: the file already Processing, else the first file
\* In Queue, which is set to Processing.
AdmissionScan(fs) ==
    LET p == FirstWithStatus(fs, "Processing")
        q == FirstWithStatus(fs, "In Queue")
    IN  IF p # 0 THEN [files |-> fs, processing_file |-> fs[p].name]
        ELSE IF q # 0
        THEN [files |-> [fs EXCEPT ![q].status = "Processing"],
              processing_file |-> fs[q].name]
        ELSE [files |-> fs, processing_file |-> NoFile]

\* file_name.replace('.pdf', '')
StripPdf(n) == SelectSeq(n, LAMBDA t : t # ".pdf")

\* An export loop that tests the notes and not the status.
RECURSIVE ExportLoopAnyStatus(_, _, _)
ExportLoopAnyStatus(fs, i, acc) ==
    IF i > Len(fs) THEN acc
    ELSE IF Truthy(fs[i].notes)
    THEN ExportLoopAnyStatus(fs, i + 1,
            acc \o <<"# Notes for ">> \o StripPdf(fs[i].name) \o <<"\n\n">>
                \o fs[i].notes[1] \o <<"\n\n---\n\n">>)
    ELSE ExportLoopAnyStatus(fs, i + 1, acc)

\* The download-all handler's loop, from entry i on, with accumulator acc.
RECURSIVE ExportLoop(_, _, _)
ExportLoop(fs, i, acc) ==
    IF i > Len(fs) THEN acc
    ELSE IF fs[i].status = "Completed" /\ Truthy(fs[i].notes)
    THEN ExportLoop(fs, i + 1,
            acc \o <<"# Notes for ">> \o StripPdf(fs[i].name) \o <<"\n\n">>
                \o fs[i].notes[1] \o <<"\n\n---\n\n">>)
    ELSE ExportLoop(fs, i + 1, acc)

\* The download-all handler: the button's data, None when only the
\* warning is shown.
ExportAllMarkdown(fs) ==
    LET all_notes_markdown == ExportLoop(fs, 1, <<>>)
    IN  IF all_notes_markdown # <<>> THEN Some(all_notes_markdown) ELSE None

\* A post-extraction step that tests "is not None" and so takes "" as text.
AfterExtractNotNone(job, text) ==
    IF job.cancelled THEN "cancelled"
    ELSE IF text # None THEN "generate"
    ELSE "failed"

\* A post-extraction step that lacks the "cancelled" check.
AfterExtractNoCheck(job, text) == IF Truthy(text) THEN "generate" ELSE "failed"

\* The check after the extractor returns: what the run does next.
AfterExtract(job, text) ==
    IF job.cancelled THEN "cancelled"
    ELSE IF Truthy(text) THEN "generate"
    ELSE "failed"

\* A commit that stores the notes before it checks the flag.
AfterGenerateKeepsNotes(job, notes) ==
    IF job.cancelled THEN [job EXCEPT !.notes = notes, !.status = "Cancelled"]
    ELSE IF Truthy(notes)
    THEN [job EXCEPT !.notes = notes, !.status = "Completed"]
    ELSE [job EXCEPT !.notes = notes, !.status = "Failed"]

\* A commit that lacks the "cancelled" check.
AfterGenerateNoCheck(job, notes) ==
    IF Truthy(notes)
    THEN [job EXCEPT !.notes = notes, !.status = "Completed"]
    ELSE [job EXCEPT !.notes = notes, !.status = "Failed"]

\* The commit after the generator returns.
AfterGenerate(job, notes) ==
    IF job.cancelled THEN [job EXCEPT !.status = "Cancelled"]
    ELSE IF Truthy(notes)
    THEN [job EXCEPT !.notes = notes, !.status = "Completed"]
    ELSE [job EXCEPT !.notes = notes, !.status = "Failed"]

\* -------------------------------------------------------------- state
Init ==
    /\ files = <<>>
    /\ pc = "idle"
    /\ button = "none"
    /\ cancel_key = NoFile
    /\ pdf_files = <<>>
    /\ warning = ""
    /\ download = None
    /\ processing_file = NoFile
    /\ chapter_text = None
    /\ rerun = FALSE
    /\ extractCalls = [n \in Names |-> 0]
    /\ genCalls = [n \in Names |-> 0]

\* What every run start leaves alone.
RunStartFrame ==
    /\ rerun' = FALSE
    /\ UNCHANGED <<processing_file, chapter_text, extractCalls, genCalls>>

\* A click on "Generate Notes": the handler of lines 140-155.
Generate(key, ups, prompt) ==
    /\ pc = "idle"
    /\ files' = GenerateHandler(files, key, ups, prompt)
    /\ button' = "generate"
    /\ warning' = GenerateWarning(key, ups, prompt)
    /\ pdf_files' = IF GenerateWarning(key, ups, prompt) = "" THEN ups ELSE <<>>
    /\ cancel_key' = NoFile
    /\ download' = None
    /\ pc' = "first_pass"
    /\ RunStartFrame

\* A click on "Cancel All Generations": lines 157-161, ending in st.rerun().
CancelAll ==
    /\ pc = "idle"
    /\ files' = CancelAllWrite(files)
    /\ button' = "cancel_all"
    /\ rerun' = TRUE
    /\ pc' = "idle"
    /\ cancel_key' = NoFile
    /\ download' = None
    /\ UNCHANGED <<pdf_files, warning, processing_file,
                   chapter_text, extractCalls, genCalls>>

\* A click on "Download All Notes as Markdown": lines 163-179.
DownloadAllMarkdown ==
    /\ pc = "idle"
    /\ download' = ExportAllMarkdown(files)
    /\ warning' = IF ExportAllMarkdown(files) = None
                  THEN "No completed notes to download as Markdown."
                  ELSE ""
    /\ button' = "download_all_markdown"
    /\ cancel_key' = NoFile
    /\ pc' = "first_pass"
    /\ RunStartFrame
    /\ UNCHANGED <<files, pdf_files>>

\* A click on "Download All Notes as PDF": lines 181-182, a warning only.
DownloadAllPdf ==
    /\ pc = "idle"
    /\ button' = "download_all_pdf"
    /\ warning' = "Merging PDFs is not yet supported."
    /\ cancel_key' = NoFile
    /\ download' = None
    /\ pc' = "first_pass"
    /\ RunStartFrame
    /\ UNCHANGED <<files, pdf_files>>

\* A click on the Cancel button of file n's tab starts a run in which
\* st.button(key="cancel_<n>") returns True if it is rendered.
ClickCancel(n) ==
    /\ pc = "idle"
    /\ n \in Keys(files)
    /\ button' = "cancel"
    /\ cancel_key' = n
    /\ download' = None
    /\ pc' = "first_pass"
    /\ RunStartFrame
    /\ UNCHANGED <<files, pdf_files, warning>>

\* The run that st.rerun() scheduled: no button is pressed.
Rerun ==
    /\ pc = "idle"
    /\ rerun = TRUE
    /\ button' = "none"
    /\ cancel_key' = NoFile
    /\ download' = None
    /\ pc' = "first_pass"
    /\ RunStartFrame
    /\ UNCHANGED <<files, pdf_files, warning>>

\* Lines 184-197: "if any(files)" and the first admission scan.  The
\* handlers' inputs and outputs are not read after this point.
FirstPass ==
    /\ pc = "first_pass"
    /\ IF Len(files) > 0
       THEN /\ files' = AdmissionScan(files).files
            /\ processing_file' = AdmissionScan(files).processing_file
            /\ pc' = "tabs"
            /\ UNCHANGED cancel_key
       ELSE /\ pc' = "idle"
            /\ cancel_key' = NoFile
            /\ UNCHANGED <<files, processing_file>>
    /\ pdf_files' = <<>>
    /\ warning' = ""
    /\ download' = None
    /\ button' = "none"
    /\ UNCHANGED <<chapter_text, rerun, extractCalls, genCalls>>

\* Lines 199-231: the tabs.  The clicked Cancel button, if it is rendered,
\* cancels its file and ends the run in st.rerun().
RenderTabs ==
    /\ pc = "tabs"
    /\ IF /\ cancel_key \in Keys(files)
          /\ CancelRendered(files[IndexOf(files, cancel_key)])
       THEN /\ files' = [files EXCEPT ![IndexOf(files, cancel_key)] =
                            CancelWrite(files[IndexOf(files, cancel_key)])]
            /\ rerun' = TRUE
            /\ pc' = "idle"
       ELSE /\ pc' = "second_pass"
            /\ UNCHANGED <<files, rerun>>
    /\ cancel_key' = NoFile
    /\ UNCHANGED <<button, pdf_files, warning, download,
                   processing_file, chapter_text, extractCalls, genCalls>>

\* Lines 233-244: the second admission scan.
SecondPass ==
    /\ pc = "second_pass"
    /\ files' = AdmissionScan(files).files
    /\ processing_file' = AdmissionScan(files).processing_file
    /\ pc' = "dispatch"
    /\ UNCHANGED <<button, cancel_key, pdf_files, warning,
                   download, chapter_text, rerun, extractCalls, genCalls>>

\* A dispatch that calls st.rerun() also when there is no active file.
DispatchAlwaysReruns ==
    /\ pc = "dispatch"
    /\ IF processing_file = NoFile
       THEN /\ pc' = "idle"
            /\ rerun' = TRUE
            /\ UNCHANGED <<files, extractCalls>>
       ELSE IF files[IndexOf(files, processing_file)].cancelled
       THEN /\ files' = [files EXCEPT
                            ![IndexOf(files, processing_file)].status = "Cancelled"]
            /\ rerun' = TRUE
            /\ pc' = "idle"
            /\ UNCHANGED extractCalls
       ELSE /\ extractCalls' =
                  [extractCalls EXCEPT ![processing_file] = @ + 1]
            /\ pc' = "extracting"
            /\ UNCHANGED <<files, rerun>>
    /\ UNCHANGED <<button, cancel_key, pdf_files, warning,
                   download, processing_file, chapter_text, genCalls>>

\* Lines 246-253: nothing to do, or the active file is cancelled, or the
\* text extractor is called.
Dispatch ==
    /\ pc = "dispatch"
    /\ IF processing_file = NoFile
       THEN /\ pc' = "idle"
            /\ UNCHANGED <<files, rerun, extractCalls>>
       ELSE IF files[IndexOf(files, processing_file)].cancelled
       THEN /\ files' = [files EXCEPT
                            ![IndexOf(files, processing_file)].status = "Cancelled"]
            /\ rerun' = TRUE
            /\ pc' = "idle"
            /\ UNCHANGED extractCalls
       ELSE /\ extractCalls' =
                  [extractCalls EXCEPT ![processing_file] = @ + 1]
            /\ pc' = "extracting"
            /\ UNCHANGED <<files, rerun>>
    /\ UNCHANGED <<button, cancel_key, pdf_files, warning,
                   download, processing_file, chapter_text, genCalls>>

\* Lines 253-258 and 271-274: the extractor returns text.
ExtractReturn(text) ==
    /\ pc = "extracting"
    /\ LET i == IndexOf(files, processing_file)
           next == AfterExtract(files[i], text)
       IN  IF next = "cancelled"
           THEN /\ files' = [files EXCEPT ![i].status = "Cancelled"]
                /\ rerun' = TRUE
                /\ pc' = "idle"
                /\ chapter_text' = None
                /\ UNCHANGED genCalls
           ELSE IF next = "generate"
           THEN /\ genCalls' = [genCalls EXCEPT ![processing_file] = @ + 1]
                /\ pc' = "generating"
                /\ chapter_text' = text
                /\ UNCHANGED <<files, rerun>>
           ELSE /\ files' = [files EXCEPT ![i].notes = None,
                                          ![i].status = "Failed"]
                /\ rerun' = TRUE
                /\ pc' = "idle"
                /\ chapter_text' = None
                /\ UNCHANGED genCalls
    /\ UNCHANGED <<button, cancel_key, pdf_files, warning,
                   download, processing_file, extractCalls>>

\* A commit that lacks the st.rerun() of line 270: the run ends and
\* nothing schedules the next one.
GenerateReturnNoRerun(notes) ==
    /\ pc = "generating"
    /\ LET i == IndexOf(files, processing_file)
       IN  files' = [files EXCEPT ![i] = AfterGenerate(files[i], notes)]
    /\ rerun' = FALSE
    /\ pc' = "idle"
    /\ chapter_text' = None
    /\ UNCHANGED <<button, cancel_key, pdf_files, warning,
                   download, processing_file, extractCalls, genCalls>>

\* Lines 259-270: the generator returns notes; every branch ends in
\* st.rerun().
GenerateReturn(notes) ==
    /\ pc = "generating"
    /\ LET i == IndexOf(files, processing_file)
       IN  files' = [files EXCEPT ![i] = AfterGenerate(files[i], notes)]
    /\ rerun' = TRUE
    /\ pc' = "idle"
    /\ chapter_text' = None
    /\ UNCHANGED <<button, cancel_key, pdf_files, warning,
                   download, processing_file, extractCalls, genCalls>>

\* A per-file cancel (lines 207-210) landing during a collaborator call.
CancelOneDuringCall(n) ==
    /\ pc \in {"extracting", "generating"}
    /\ n \in Keys(files)
    /\ CancelRendered(files[IndexOf(files, n)])
    /\ files' = [files EXCEPT ![IndexOf(files, n)] =
                    CancelWrite(files[IndexOf(files, n)])]
    /\ UNCHANGED <<pc, button, cancel_key, pdf_files, warning,
                   download, processing_file, chapter_text, rerun,
                   extractCalls, genCalls>>

\* A cancel-all (lines 158-160) landing during a collaborator call.
CancelAllDuringCall ==
    /\ pc \in {"extracting", "generating"}
    /\ files' = CancelAllWrite(files)
    /\ UNCHANGED <<pc, button, cancel_key, pdf_files, warning,
                   download, processing_file, chapter_text, rerun,
                   extractCalls, genCalls>>

Next ==
    \/ \E key \in ApiKeys, ups \in Uploads, prompt \in Prompts :
          Generate(key, ups, prompt)
    \/ CancelAll
    \/ DownloadAllMarkdown
    \/ DownloadAllPdf
    \/ \E n \in Names : ClickCancel(n)
    \/ Rerun
    \/ FirstPass
    \/ RenderTabs
    \/ SecondPass
    \/ Dispatch
    \/ \E text \in ChapterTexts : ExtractReturn(text)
    \/ \E notes \in NotesResults : GenerateReturn(notes)
    \/ \E n \in Names : CancelOneDuringCall(n)
    \/ CancelAllDuringCall

Spec == Init /\ [][Next]_vars

\* The script, once started, runs on; a rerun that st.rerun() scheduled is
\* executed; a collaborator that is called returns.
Fairness ==
    /\ WF_vars(Rerun)
    /\ WF_vars(FirstPass)
    /\ WF_vars(RenderTabs)
    /\ WF_vars(SecondPass)
    /\ WF_vars(Dispatch)
    /\ WF_vars(\E text \in ChapterTexts : ExtractReturn(text))
    /\ WF_vars(\E notes \in NotesResults : GenerateReturn(notes))

FairSpec == Spec /\ Fairness

\* ------------------------------------------------------------- claims
Terminal == {"Completed", "Failed", "Cancelled"}

Active == {"In Queue", "Processing"}

\* A step of the generate handler, of the cancel_all handler at the start
\* of a run, of the download-all handler.
IsGenerateStep == pc = "idle" /\ button' = "generate"

IsCancelAllStep == pc = "idle" /\ button' = "cancel_all"

\* C1: in every reachable state at most one entry of the table has status
\* Processing.
SingleFlight ==
    Cardinality({i \in DOMAIN files : files[i].status = "Processing"}) <= 1

\* C1: a file is being extracted while another one waits In Queue.
SingleFlightWitness ==
    /\ pc = "extracting"
    /\ \E i, j \in DOMAIN files :
          /\ files[i].status = "Processing"
          /\ files[j].status = "In Queue"

\* C2: a step that takes an entry from In Queue to Processing leaves no
\* entry inserted before it In Queue.
AdmissionInOrder ==
    [][\A i \in DOMAIN files :
          (files[i].status = "In Queue" /\ files'[i].status = "Processing")
             => \A j \in 1..(i - 1) : files[j].status # "In Queue"]_vars

\* C2: of two files In Queue the first has just been admitted.
AdmissionInOrderWitness ==
    /\ pc = "tabs"
    /\ Len(files) >= 2
    /\ files[1].status = "Processing"
    /\ extractCalls[files[1].name] = 0
    /\ files[2].status = "In Queue"

\* C3: a step of the generate handler leaves the status, notes and
\* cancelled flag of every entry already in the table as they were, keeps
\* the entries' order, and appends entries only for names not yet tracked.
GenerateIdempotent ==
    [][IsGenerateStep =>
          /\ Len(files') >= Len(files)
          /\ \A i \in DOMAIN files :
                /\ files'[i].name = files[i].name
                /\ files'[i].status = files[i].status
                /\ files'[i].notes = files[i].notes
                /\ files'[i].cancelled = files[i].cancelled
          /\ \A i \in (Len(files) + 1)..Len(files') :
                files'[i].name \notin Keys(files)]_vars

\* C3: the generate handler has just gone over a list that names a file
\* that is already Completed and holds notes.
GenerateIdempotentWitness ==
    /\ pc = "first_pass"
    /\ button = "generate"
    /\ \E k \in DOMAIN pdf_files, i \in DOMAIN files :
          /\ files[i].name = pdf_files[k]
          /\ files[i].status = "Completed"
          /\ Truthy(files[i].notes)

\* C4: a cancelled flag that is set stays set, an entry whose flag is set
\* does not become Completed, and an entry whose flag is set and whose
\* status is terminal is Cancelled.
CancelMonotone ==
    [][\A i \in DOMAIN files :
          /\ files[i].cancelled =>
                files'[i].cancelled /\ files'[i].status # "Completed"
          /\ (files'[i].cancelled /\ files'[i].status \in Terminal) =>
                files'[i].status = "Cancelled"]_vars

\* C4: the run that called the note generator for a file ended with that
\* file cancelled: the cancel landed during the call and the commit
\* respected it.
CancelMonotoneWitness ==
    /\ pc = "idle"
    /\ button = "none"
    /\ processing_file \in Keys(files)
    /\ genCalls[processing_file] = 1
    /\ files[IndexOf(files, processing_file)].cancelled
    /\ files[IndexOf(files, processing_file)].status = "Cancelled"
    /\ files[IndexOf(files, processing_file)].notes = None

\* C5: a cancel_all step sets the flag and the status Cancelled on every
\* entry that is In Queue or Processing, and leaves every entry that is
\* Completed or Failed as it was.
CancelAllSparesFinished ==
    [][IsCancelAllStep =>
          \A i \in DOMAIN files :
             /\ files[i].status \in Active =>
                   files'[i].cancelled /\ files'[i].status = "Cancelled"
             /\ files[i].status \in {"Completed", "Failed"} =>
                   files'[i] = files[i]]_vars

\* C6: the only changes of an entry's status are In Queue -> Processing,
\* In Queue -> Cancelled and Processing -> Completed, Failed or Cancelled;
\* a status that is Completed, Failed or Cancelled never changes.
TerminalAbsorbing ==
    [][\A i \in DOMAIN files :
          files'[i].status # files[i].status =>
             <<files[i].status, files'[i].status>> \in
                {<<"In Queue", "Processing">>, <<"In Queue", "Cancelled">>,
                 <<"Processing", "Completed">>, <<"Processing", "Failed">>,
                 <<"Processing", "Cancelled">>}]_vars

\* C7: an entry that is cancelled before the text extractor was called
\* for it is Cancelled, and no later step calls the extractor or the note
\* generator for it.
CancelBeforeExtraction ==
    [][\A i \in DOMAIN files :
          /\ (files[i].cancelled /\ extractCalls[files[i].name] = 0) =>
                /\ extractCalls'[files[i].name] = 0
                /\ genCalls'[files[i].name] = 0
                /\ files'[i].status = "Cancelled"
          /\ (files'[i].cancelled /\ extractCalls'[files'[i].name] = 0) =>
                /\ genCalls'[files'[i].name] = 0
                /\ files'[i].status = "Cancelled"]_vars

\* C7: a file was cancelled before any extraction; the scheduler has taken
\* another file through the extractor, and its last run found no work.
CancelBeforeExtractionWitness ==
    /\ pc = "idle"
    /\ rerun = FALSE
    /\ \E i, j \in DOMAIN files :
          /\ files[i].cancelled
          /\ files[i].status = "Cancelled"
          /\ extractCalls[files[i].name] = 0
          /\ genCalls[files[i].name] = 0
          /\ ~files[j].cancelled
          /\ extractCalls[files[j].name] = 1

\* C8: an entry that is cancelled after the extractor was called for it
\* and before the note generator was is Cancelled, and no later step calls
\* the note generator for it; in particular the step at which the
\* extractor returns does not go on to the generator.
CancelAfterExtraction ==
    [][\A i \in DOMAIN files :
          (/\ files[i].cancelled
           /\ extractCalls[files[i].name] > 0
           /\ genCalls[files[i].name] = 0) =>
             /\ genCalls'[files[i].name] = 0
             /\ files'[i].status = "Cancelled"
             /\ (pc = "extracting" /\ processing_file = files[i].name) =>
                   pc' # "generating"]_vars

\* C8: the run that called the extractor for a file ended with that file
\* cancelled and the generator not called: the cancel landed during the
\* extraction.
CancelAfterExtractionWitness ==
    /\ pc = "idle"
    /\ button = "none"
    /\ processing_file \in Keys(files)
    /\ extractCalls[processing_file] = 1
    /\ genCalls[processing_file] = 0
    /\ files[IndexOf(files, processing_file)].cancelled
    /\ files[IndexOf(files, processing_file)].status = "Cancelled"

\* The entries with status Completed, in table order.
CompletedJobs(fs) == SelectSeq(fs, LAMBDA job : job.status = "Completed")

\* The text of an entry's notes, "" when there are none.
NotesText(job) == IF job.notes = None THEN <<>> ELSE job.notes[1]

\* Heading, notes and horizontal rule of one entry.
ExportEntry(job) ==
    <<"# Notes for ">> \o StripPdf(job.name) \o <<"\n\n">>
        \o NotesText(job) \o <<"\n\n---\n\n">>

RECURSIVE ConcatEntries(_)
ConcatEntries(jobs) ==
    IF jobs = <<>> THEN <<>>
    ELSE ExportEntry(Head(jobs)) \o ConcatEntries(Tail(jobs))

\* C9: the download-all handler yields nothing when no entry is
\* Completed, and otherwise the concatenation, over the Completed entries
\* in table order and over no other entry, of a heading, the entry's notes
\* and a horizontal rule.
ExportAllMarkdownCorrect ==
    (pc = "first_pass" /\ button = "download_all_markdown") =>
        download = IF CompletedJobs(files) = <<>> THEN None
                   ELSE Some(ConcatEntries(CompletedJobs(files)))

\* C9: notes of two Completed files have just been exported.
ExportAllMarkdownWitness ==
    /\ pc = "first_pass"
    /\ button = "download_all_markdown"
    /\ download # None
    /\ Len(CompletedJobs(files)) >= 2

\* C9: an export over a table without a Completed entry.
ExportNothingWitness ==
    /\ pc = "first_pass"
    /\ button = "download_all_markdown"
    /\ download = None
    /\ Len(files) > 0

\* C10: in every reachable state an entry with non-empty notes has status
\* Completed.
NotesOnlyWhenCompleted ==
    \A i \in DOMAIN files :
       Truthy(files[i].notes) => files[i].status = "Completed"

\* The step at which the text extractor, the note generator returns.
IsExtractReturnStep == pc = "extracting" /\ pc' # "extracting"

IsGenerateReturnStep == pc = "generating" /\ pc' # "generating"

\* C11: when the note generator returns for a file whose cancelled flag
\* is set, the step stores no notes in the entry (they stay absent) and
\* sets its status to Cancelled.
CancelDuringGenerationDiscards ==
    [][(/\ IsGenerateReturnStep
        /\ files[IndexOf(files, processing_file)].cancelled) =>
          /\ files'[IndexOf(files, processing_file)].notes = None
          /\ files'[IndexOf(files, processing_file)].status = "Cancelled"]_vars

\* C11: the generator was called for a file, the cancel landed during the
\* call, and the run ended in st.rerun() with the file Cancelled and
\* without notes.
CancelDuringGenerationWitness ==
    /\ pc = "idle"
    /\ rerun
    /\ button = "none"
    /\ processing_file \in Keys(files)
    /\ extractCalls[processing_file] = 1
    /\ genCalls[processing_file] = 1
    /\ files[IndexOf(files, processing_file)].cancelled
    /\ files[IndexOf(files, processing_file)].status = "Cancelled"
    /\ ~Truthy(files[IndexOf(files, processing_file)].notes)

\* C12: for the active file, its cancelled flag not set: when the
\* extractor returns None or "" the entry becomes Failed and the note
\* generator is not called, when it returns text the generator is called;
\* when the generator returns None or "" the entry becomes Failed, when it
\* returns notes the entry becomes Completed with these notes; and no other
\* step makes an entry Completed.
FailureMapping ==
    [][\A i \in DOMAIN files :
          /\ (processing_file = files[i].name /\ ~files[i].cancelled) =>
                /\ \A text \in ChapterTexts :
                      ExtractReturn(text) =>
                         IF Truthy(text)
                         THEN /\ pc' = "generating"
                              /\ files'[i].status = "Processing"
                              /\ genCalls'[files[i].name] =
                                    genCalls[files[i].name] + 1
                         ELSE /\ pc' = "idle"
                              /\ files'[i].status = "Failed"
                              /\ genCalls'[files[i].name] =
                                    genCalls[files[i].name]
                /\ \A notes \in NotesResults :
                      GenerateReturn(notes) =>
                         IF Truthy(notes)
                         THEN /\ files'[i].status = "Completed"
                              /\ files'[i].notes = notes
                         ELSE files'[i].status = "Failed"
          /\ (files'[i].status = "Completed" /\ files[i].status # "Completed") =>
                /\ IsGenerateReturnStep
                /\ processing_file = files[i].name
                /\ chapter_text # None /\ chapter_text[1] # <<>>
                /\ Truthy(files'[i].notes)]_vars

\* C12: one file has Failed at the extractor, without a call of the
\* generator, and another has Failed at the generator.
FailureMappingWitness ==
    /\ pc = "idle"
    /\ \E i, j \in DOMAIN files :
          /\ files[i].status = "Failed" /\ ~files[i].cancelled
          /\ extractCalls[files[i].name] = 1
          /\ genCalls[files[i].name] = 0
          /\ files[j].status = "Failed" /\ ~files[j].cancelled
          /\ genCalls[files[j].name] = 1

\* A step of the scheduler or of the pipeline: an admission scan, the
\* dispatch, the return of a collaborator.
IsAdvanceStep ==
    /\ pc \in {"first_pass", "second_pass", "dispatch", "extracting",
               "generating"}
    /\ pc' # pc

\* C13: a step of the scheduler or of the pipeline adds no entry and
\* changes no entry other than the active file's; the second scan of a
\* run admits nothing, so that a run admits at most one file; and a file
\* In Queue is admitted only by a scan that finds no file Processing.
OneJobPerAdvance ==
    [][/\ IsAdvanceStep =>
             /\ Len(files') = Len(files)
             /\ \A i \in DOMAIN files :
                   files'[i] # files[i] => files[i].name = processing_file'
       /\ pc = "second_pass" => files' = files
       /\ \A i \in DOMAIN files :
             (files[i].status = "In Queue" /\ files'[i].status = "Processing")
                => /\ pc = "first_pass"
                   /\ \A j \in DOMAIN files : files[j].status # "Processing"]_vars

\* C13: the run that took the first file to Completed has ended and the
\* second file is still In Queue.
OneJobPerAdvanceWitness ==
    /\ pc = "idle"
    /\ rerun
    /\ Len(files) >= 2
    /\ files[1].status = "Completed"
    /\ processing_file = files[1].name
    /\ files[2].status = "In Queue"

\* No entry of the table is In Queue or Processing.
NoActiveJob == \A i \in DOMAIN files : files[i].status \notin Active

\* C14: while no entry is In Queue or Processing, the steps of a run from
\* the first scan to the dispatch change no entry, call no collaborator
\* and schedule no rerun, and the dispatch ends the run.
Quiescence ==
    [][(/\ pc \in {"first_pass", "tabs", "second_pass", "dispatch"}
        /\ NoActiveJob) =>
          /\ files' = files
          /\ extractCalls' = extractCalls
          /\ genCalls' = genCalls
          /\ pc' \notin {"extracting", "generating"}
          /\ rerun' = FALSE
          /\ pc = "dispatch" => (pc' = "idle" /\ processing_file = NoFile)]_vars

\* C14: over a table whose files are all finished, the rerun that the
\* last pipeline scheduled has ended without scheduling another.
QuiescenceWitness ==
    /\ pc = "idle"
    /\ button = "none"
    /\ rerun = FALSE
    /\ processing_file = NoFile
    /\ Len(files) > 0
    /\ NoActiveJob
    /\ \E i \in DOMAIN files : files[i].status = "Completed"

\* C15: no step removes an entry from the table or moves one: the table
\* after a step starts with the names of the table before it, in the same
\* order.
JobsNeverDeleted ==
    [][/\ Len(files') >= Len(files)
       /\ \A i \in DOMAIN files : files'[i].name = files[i].name]_vars

\* C15: a generate handler has just appended a file to a table that holds
\* an earlier, finished file, which kept its place.
JobsNeverDeletedWitness ==
    /\ pc = "first_pass"
    /\ button = "generate"
    /\ Len(files) >= 2
    /\ files[1].status \in Terminal
    /\ files[1].name \notin {pdf_files[k] : k \in DOMAIN pdf_files}
    /\ files[Len(files)].status = "In Queue"
    /\ files[Len(files)].name \in {pdf_files[k] : k \in DOMAIN pdf_files}

\* C16: again and again the script is at rest between runs, with no rerun
\* scheduled and every file of the table in a terminal status.  Entries
\* are never removed and a terminal status is only ever replaced by a
\* terminal one, so every file that enters the table reaches a terminal
\* status, and the rerun loop stops once all have.
Progress == []<>(pc = "idle" /\ ~rerun /\ NoActiveJob)

\* C16: two files went through the pipeline, one to Completed and one to
\* Failed, and the rerun loop has stopped.
ProgressWitness ==
    /\ pc = "idle"
    /\ ~rerun
    /\ Len(files) >= 2
    /\ NoActiveJob
    /\ \E i, j \in DOMAIN files :
          /\ files[i].status = "Completed"
          /\ files[j].status = "Failed"
          /\ extractCalls[files[j].name] = 1

\* C17: in every reachable state an entry whose cancelled flag is set has
\* status Cancelled, and the file the dispatch is about to handle does not
\* have the flag set.
CancelledImpliesStatus ==
    /\ \A i \in DOMAIN files :
          files[i].cancelled => files[i].status = "Cancelled"
    /\ (pc = "dispatch" /\ processing_file # NoFile) =>
          /\ files[IndexOf(files, processing_file)].status = "Processing"
          /\ ~files[IndexOf(files, processing_file)].cancelled

\* C17: the dispatch holds an active file while another entry of the
\* table is cancelled.
CancelledImpliesStatusWitness ==
    /\ pc = "dispatch"
    /\ processing_file \in Keys(files)
    /\ \E i \in DOMAIN files :
          /\ files[i].cancelled
          /\ files[i].status = "Cancelled"

\* C18: a step of the generate handler that changes the table is not one
\* with an empty API key, an empty list of uploads or an empty prompt; every
\* entry a step of the handler appends has status In Queue, no notes and
\* the cancelled flag not set.
GenerateGuarded ==
    [][IsGenerateStep =>
          /\ files' # files =>
                \A key \in ApiKeys, ups \in Uploads, prompt \in Prompts :
                   (key = <<>> \/ ups = <<>> \/ prompt = <<>>)
                      => ~Generate(key, ups, prompt)
          /\ \A i \in (Len(files) + 1)..Len(files') :
                /\ files'[i].status = "In Queue"
                /\ files'[i].notes = None
                /\ files'[i].cancelled = FALSE]_vars

\* C18: a click on the button with an empty prompt has just been refused
\* over a table that holds files.
GenerateGuardedWitness ==
    /\ pc = "first_pass"
    /\ button = "generate"
    /\ warning = "Please enter a prompt."
    /\ pdf_files = <<>>
    /\ Len(files) > 0

\* C18: the handler has just appended two files.
GenerateAddsWitness ==
    /\ pc = "first_pass"
    /\ button = "generate"
    /\ warning = ""
    /\ Len(pdf_files) = 2
    /\ Len(files) >= 2
    /\ files[Len(files)] = NewJob(pdf_files[2])
    /\ files[Len(files) - 1] = NewJob(pdf_files[1])

\* ---------------------------------------------------------- well-formedness
Statuses == {"In Queue", "Processing", "Completed", "Failed", "Cancelled"}

TypeOK ==
    /\ \A i \in DOMAIN files :
          /\ files[i].name \in Names
          /\ files[i].status \in Statuses
          /\ files[i].cancelled \in BOOLEAN
    /\ \A i, j \in DOMAIN files : files[i].name = files[j].name => i = j
    /\ pc \in {"idle", "first_pass", "tabs", "second_pass", "dispatch",
               "extracting", "generating"}
    /\ button \in Buttons
====
